---- MODULE Spec2Model ----
(***************************************************************************)
(* A model of lazydodo-bot's Discord side (internal/discord/discord.go):   *)
(*                                                                         *)
(*   - the eventer: the ReminderStore, the scheduled-event handlers        *)
(*     createRemindersForEvent / updateRemindersForEvent, the startup pass *)
(*     syncExistingEvents and the goroutine reminderWorker;                *)
(*   - the snapshot consumer loop of DiscordBot.Start with its presence    *)
(*     diff (join / leave / move notifications).                           *)
(*                                                                         *)
(* Time is an integer clock (one unit is one offset granule).  A Reminder  *)
(* keeps the fields the code decides on: EventID, StartTime, RemindAt, Now *)
(* (EventName and EventURL are functions of the event and never tested).   *)
(* The field uid names the slice element a queueReminders call appended,   *)
(* so that one enqueued reminder can be told from an equal later one.      *)
(***************************************************************************)
EXTENDS Integers, Sequences, FiniteSets, Bags, TLC

\* ------------------------------------------------------------------ bounds

\* The clock runs over 0..MaxTime.
MaxTime == 4

\* Gateway notifications (create / update) delivered in one run.
MaxDispatch == 1

\* Gateway notifications delivered in a run of the handlers' race.
RaceDispatch == 2

\* Status messages the bot may create in the status channel in one run.
MaxMsgs == 2

\* The longest span handed to FormatDuration, in units of 30 seconds
\* (6000 units are 2 days 2 hours).
MaxSpan == 6000

\* ------------------------------------------------------- the model's inputs

\* Scheduled events the guild may hold.
Events == {"e1", "e2"}

\* The events the gateway's notifications of a run are about; the others are
\* bystanders, whose reminders only the startup pass and the worker touch.
Notified == {"e1"}

\* The order in which GuildScheduledEvents lists them.
EventOrder == <<"e1", "e2">>

\* Start times the gateway reports.
StartTimes == {2, 3}

\* Handler goroutines alive at once (discordgo runs each handler call in a
\* goroutine of its own).
Handlers == {"h1", "h2"}

\* config.GlobalConfig.Discord.Eventer.ReminderOffsets: any list the
\* configuration can hold; parseDurationString accepts 0 and repeated values.
OffsetConfigs == {<<2, 1>>, <<1, 0>>, <<1, 1>>}

\* discordgo.GuildScheduledEventStatus*
Scheduled == "scheduled"
Active == "active"
Completed == "completed"
Canceled == "canceled"
Unknown == "unknown"
Statuses == {Scheduled, Active, Completed, Canceled, Unknown}

\* The monitored servers (the keys of a snapshot generation) and the orders a
\* Go range over such a map may take.
Servers == {"A", "B"}
ServerOrders == {<<"A", "B">>, <<"B", "A">>}

\* Player names, and the player lists a server may report.
Players == {"p1", "p2"}
PlayerLists == {<<>>, <<"p1">>, <<"p2">>, <<"p1", "p2">>}

\* A snapshot generation: map[string]*model.ServerInfo, reduced to Players.
Snapshots == [Servers -> PlayerLists]

\* A nil map[string]*model.ServerInfo.
NilInfos == <<>>

NoEvent == [S |-> 0, Status |-> "none"]
NoCall == [kind |-> "none", ID |-> "none", S |-> 0, Status |-> "none"]

\* utils.Language: English, German, and a value that is neither.
English == "English"
German == "German"
Languages == {English, German, "other"}

\* The id of the bot's user, as Discord reports it.
BotUser == "bot"

\* No updatePlayerList call has been made since the process started.
NoOps == [byId |-> FALSE, searched |-> FALSE, edited |-> 0, created |-> 0,
          err |-> FALSE, id |-> 0]

\* ---------------------------------------------------------------- the state

VARIABLES
    clock,            \* time.Now()
    ReminderOffsets,  \* config.GlobalConfig.Discord.Eventer.ReminderOffsets
    gw,               \* the guild's scheduled events, as the gateway holds them
    Pending,          \* store.Pending
    mutex,            \* store's sync.Mutex: "free" or its holder
    nextUid,          \* reminders appended so far, plus one
    mainPc,           \* Start: where the startup pass stands
    syncList,         \* syncExistingEvents: events still to be queued
    hpc,              \* per handler goroutine: where it stands
    hev,              \* per handler goroutine: the notification it handles
    alone,            \* history, per slot: no other writer ran since its purge
    purgedOld,        \* history, per slot: its purge removed another StartTime
    dispatched,       \* gateway notifications delivered so far
    quota,            \* gateway notifications the run may deliver
    raced,            \* history: a handler was started while another ran
    purged,           \* history: uids a removeRemindersForEvent call removed
    wpc,              \* reminderWorker: where it stands
    wnow,             \* reminderWorker: now (line 463)
    wi,               \* reminderWorker: index of the range loop
    remaining,        \* reminderWorker: remaining (line 466)
    fired,            \* history: ChannelMessageSend calls per reminder uid
    sendErr,          \* history: a ChannelMessageSend of this tick failed
    ShowJoinLeave,    \* config.GlobalConfig.Discord.ShowJoinLeave
    PinPlayerList,    \* config.GlobalConfig.Discord.PinPlayerList
    cpc,              \* Start's range over updateChan: where it stands
    ifos,             \* the snapshot taken from updateChan
    lastInfos,        \* the copy of the previous snapshot (nil at first)
    notes,            \* the join / leave / move messages sent in this round
    existingMessageId,\* Start's existingMessageId (0 is the empty string)
    cacheFile,        \* the file at CachePath (0 is empty or missing)
    channel,          \* the bot's status messages in the status channel
    nextMsg,          \* the id Discord gives the next message
    userID,           \* bot.userID ("" while it is not resolved)
    bootRead,         \* history: how readMessageId ended at this start
    lastOps,          \* history: the Discord calls of the last updatePlayerList
    steps,            \* history: what was done for the snapshot taken, in order
    span,             \* FormatDuration's d, in units of 30 seconds
    lang,             \* FormatDuration's lang
    text,             \* the string FormatDuration returned
    formatted         \* FormatDuration has returned

evars == <<clock, ReminderOffsets, gw, Pending, mutex, nextUid, mainPc, syncList,
           hpc, hev, alone, purgedOld, dispatched, wpc, wnow, wi,
           remaining, fired, sendErr, quota, raced, purged>>

fvars == <<span, lang, text, formatted>>

pvars == <<ShowJoinLeave, PinPlayerList, cpc, ifos, lastInfos, notes,
           existingMessageId, cacheFile, channel, nextMsg, userID, bootRead,
           lastOps, steps, fvars>>

vars == <<evars, pvars>>

\* ------------------------------------------------------------ pure helpers

Range(s) == {s[i] : i \in DOMAIN s}

\* A reminder without the model's uid: the fields of the Go struct.
Fields(r) == [EventID |-> r.EventID, StartTime |-> r.StartTime,
              RemindAt |-> r.RemindAt, Now |-> r.Now]

\* A comparison that lets the instant itself pass for "before".
Before_orEqual(t, u) == t <= u

\* time.Time.Before / time.Time.After
Before(t, u) == t < u
After(t, u) == t > u

\* The largest number of reminders one queueReminders call appends.
MaxPerCall ==
    1 + CHOOSE n \in 0..8 : /\ \A c \in OffsetConfigs : Len(c) <= n
                           /\ \E c \in OffsetConfigs : Len(c) = n

\* Upper bound of the uids a run can hand out.
MaxUid == MaxPerCall * (MaxDispatch + RaceDispatch + Cardinality(Events))

\* A purge whose test is inverted: it keeps the event's reminders.
removeReminders_inverted(P, eventID) ==
    SelectSeq(P, LAMBDA r : r.EventID = eventID)

\* removeRemindersForEvent: keep the reminders of the other events.
removeRemindersForEvent(P, eventID) ==
    SelectSeq(P, LAMBDA r : r.EventID # eventID)

\* queueReminders, the loop over the offsets from index i on: a reminder per
\* offset whose remindTime is still ahead of now.
RECURSIVE queueOffsets(_, _, _, _, _, _)
queueOffsets(P, ev, now, offsets, i, uid) ==
    IF i > Len(offsets) THEN P
    ELSE LET remindTime == ev.S - offsets[i]
         IN  IF Before(now, remindTime)
             THEN queueOffsets(
                      Append(P, [uid |-> uid, EventID |-> ev.ID, StartTime |-> ev.S,
                                 RemindAt |-> remindTime, Now |-> FALSE]),
                      ev, now, offsets, i + 1, uid + 1)
             ELSE queueOffsets(P, ev, now, offsets, i + 1, uid)

\* queueReminders: the offsets' reminders, then the reminder of the start itself.
queueReminders(P, ev, now, offsets, uid) ==
    LET Q == queueOffsets(P, ev, now, offsets, 1, uid)
    IN  IF Before(now, ev.S)
        THEN Append(Q, [uid |-> uid + Len(Q) - Len(P), EventID |-> ev.ID,
                        StartTime |-> ev.S, RemindAt |-> ev.S, Now |-> TRUE])
        ELSE Q

\* A status test that also reschedules on a cancellation.
Reschedules_orCanceled(status) == status \in {Scheduled, Canceled}

\* updateRemindersForEvent's first test: only a "scheduled" update goes on to
\* purge and requeue.
Reschedules(status) == status = Scheduled

\* reminderWorker's test of one reminder.
IsDue(now, r) == After(now, r.RemindAt)

\* A scan that forgets the reminders it passed over.
scanKept_lossy(P, rem, i, j) == rem

\* reminderWorker, the range loop from index i on, up to the next reminder
\* that is due (or the end): the reminders passed are appended to remaining.
RECURSIVE scanIndex(_, _, _)
scanIndex(P, now, i) ==
    IF i > Len(P) \/ IsDue(now, P[i]) THEN i ELSE scanIndex(P, now, i + 1)

scanKept(P, rem, i, j) == rem \o SubSeq(P, i, j - 1)

\* A worker that keeps a reminder whose send failed, to try it again.
AfterSend_retry(rem, r, ok) == IF ok THEN rem ELSE Append(rem, r)

\* reminderWorker after ChannelMessageSend: the result is dropped, the reminder
\* is not appended to remaining.
AfterSend(rem, r, ok) == rem

\* GuildScheduledEvents: the events the guild lists, in the API's order.
ListedEvents(g) ==
    LET listed(e) == g[e] # NoEvent /\ g[e].Status \in {Scheduled, Active}
        RECURSIVE build(_)
        build(i) == IF i > Len(EventOrder) THEN <<>>
                    ELSE IF listed(EventOrder[i])
                         THEN <<[ID |-> EventOrder[i], S |-> g[EventOrder[i]].S]>>
                              \o build(i + 1)
                         ELSE build(i + 1)
    IN  build(1)

\* The goroutine slot the next handler call runs in: the first idle one.
FreeSlot(pcs) ==
    IF pcs["h1"] = "idle" THEN "h1" ELSE IF pcs["h2"] = "idle" THEN "h2" ELSE "none"

\* ------------------------------------------------------------------- Init

\* The state when Start has registered the handlers and opened the session
\* (line 100): the store is the empty one of line 39, the guild already holds
\* some scheduled events, nothing has been synced and the worker is not
\* started.
EInit ==
    /\ clock = 0
    /\ ReminderOffsets \in OffsetConfigs
    /\ gw \in {g \in [Events -> {NoEvent} \cup {[S |-> t, Status |-> Scheduled] : t \in StartTimes}] :
                 \A e \in Events \ Notified : g[e] \in {NoEvent, [S |-> 3, Status |-> Scheduled]}}
    /\ Pending = <<>>
    /\ mutex = "free"
    /\ nextUid = 1
    /\ mainPc = "sync_fetch"
    /\ syncList = <<>>
    /\ hpc = [h \in Handlers |-> "idle"]
    /\ hev = [h \in Handlers |-> NoCall]
    /\ alone = [h \in Handlers |-> FALSE]
    /\ purgedOld = [h \in Handlers |-> FALSE]
    /\ dispatched = 0
    /\ wpc = "off"
    /\ wnow = 0
    /\ wi = 0
    /\ remaining = <<>>
    /\ fired = [u \in 1..MaxUid |-> 0]
    /\ sendErr = FALSE
    /\ quota = MaxDispatch
    /\ raced = FALSE
    /\ purged = {}

\* The consumer loop's state when Start reaches line 121 with a cache file
\* that is missing: no previous snapshot, no message known.
PInit ==
    /\ ShowJoinLeave \in BOOLEAN
    /\ PinPlayerList \in BOOLEAN
    /\ cpc = "recv"
    /\ ifos = NilInfos
    /\ lastInfos = NilInfos
    /\ notes = {}
    /\ existingMessageId = 0
    /\ cacheFile = 0
    /\ channel = {}
    /\ nextMsg = 1
    /\ userID = BotUser
    /\ bootRead = "ok"
    /\ lastOps = NoOps
    /\ steps = <<>>

\* No FormatDuration call is looked at.
FInit ==
    /\ span = 0
    /\ lang = English
    /\ text = ""
    /\ formatted = FALSE

\* ------------------------------------------------------------- environment

\* Time passes.
AdvanceTime ==
    /\ clock < MaxTime
    /\ clock' = clock + 1
    /\ UNCHANGED <<ReminderOffsets, gw, Pending, mutex, nextUid, mainPc, syncList,
                   hpc, hev, alone, purgedOld, dispatched, wpc, wnow, wi,
                   remaining, fired, sendErr>>
    /\ UNCHANGED <<quota, raced, purged>>
    /\ UNCHANGED pvars

\* The gateway delivers GuildScheduledEventCreate: discordgo starts
\* createRemindersForEvent in a goroutine of its own.
GatewayCreate(h, e, S) ==
    /\ dispatched < quota
    /\ h = FreeSlot(hpc)
    /\ gw[e] = NoEvent
    /\ gw' = [gw EXCEPT ![e] = [S |-> S, Status |-> Scheduled]]
    /\ hev' = [hev EXCEPT ![h] = [kind |-> "create", ID |-> e, S |-> S,
                                  Status |-> Scheduled]]
    /\ hpc' = [hpc EXCEPT ![h] = "announce"]
    /\ alone' = [alone EXCEPT ![h] = FALSE]
    /\ purgedOld' = [purgedOld EXCEPT ![h] = FALSE]
    /\ dispatched' = dispatched + 1
    /\ raced' = (raced \/ \E k \in Handlers : hev[k].ID = e /\ hev[k].Status = Scheduled)
    /\ UNCHANGED <<clock, ReminderOffsets, Pending, mutex, nextUid, mainPc, syncList,
                   wpc, wnow, wi, remaining, fired,
                   sendErr>>
    /\ UNCHANGED <<quota, purged>>
    /\ UNCHANGED pvars

\* The gateway delivers GuildScheduledEventUpdate with the event's new status
\* and start time: discordgo starts updateRemindersForEvent.
GatewayUpdate(h, e, st, S) ==
    /\ dispatched < quota
    /\ h = FreeSlot(hpc)
    /\ gw[e] # NoEvent
    /\ gw[e].Status \in {Scheduled, Active}
    /\ gw' = [gw EXCEPT ![e] = [S |-> S, Status |-> st]]
    /\ hev' = [hev EXCEPT ![h] = [kind |-> "update", ID |-> e, S |-> S, Status |-> st]]
    /\ hpc' = [hpc EXCEPT ![h] = "u_check"]
    /\ alone' = [alone EXCEPT ![h] = FALSE]
    /\ purgedOld' = [purgedOld EXCEPT ![h] = FALSE]
    /\ dispatched' = dispatched + 1
    /\ raced' = (raced \/ (st = Scheduled
                           /\ \E k \in Handlers : hev[k].ID = e /\ hev[k].Status = Scheduled))
    /\ UNCHANGED <<clock, ReminderOffsets, Pending, mutex, nextUid, mainPc, syncList,
                   wpc, wnow, wi, remaining, fired,
                   sendErr>>
    /\ UNCHANGED <<quota, purged>>
    /\ UNCHANGED pvars

\* ------------------------------------------------------ lifecycle handlers

\* The handler returns and its goroutine ends.
Returned(h) ==
    /\ hpc' = [hpc EXCEPT ![h] = "idle"]
    /\ hev' = [hev EXCEPT ![h] = NoCall]

\* createRemindersForEvent, lines 358-367: the announcement is sent (its
\* result is dropped); queueReminders comes next.
Announce(h) ==
    /\ hpc[h] = "announce"
    /\ hpc' = [hpc EXCEPT ![h] = "q_wait"]
    /\ UNCHANGED <<clock, ReminderOffsets, gw, Pending, mutex, nextUid, mainPc,
                   syncList, hev, alone, purgedOld, dispatched, wpc, wnow,
                   wi, remaining, fired, sendErr>>
    /\ UNCHANGED <<quota, raced, purged>>
    /\ UNCHANGED pvars

\* updateRemindersForEvent, lines 374-392: a status other than scheduled is
\* logged and the handler returns; a scheduled one goes on to the purge.
UpdateCheck(h) ==
    /\ hpc[h] = "u_check"
    /\ IF Reschedules(hev[h].Status)
       THEN /\ hpc' = [hpc EXCEPT ![h] = "p_wait"]
            /\ UNCHANGED hev
       ELSE Returned(h)
    /\ UNCHANGED <<clock, ReminderOffsets, gw, Pending, mutex, nextUid, mainPc,
                   syncList, alone, purgedOld, dispatched, wpc, wnow, wi, remaining, fired,
                   sendErr>>
    /\ UNCHANGED <<quota, raced, purged>>
    /\ UNCHANGED pvars

\* removeRemindersForEvent, line 402: store.Lock().
PurgeLock(h) ==
    /\ hpc[h] = "p_wait"
    /\ mutex = "free"
    /\ mutex' = h
    /\ hpc' = [hpc EXCEPT ![h] = "p_locked"]
    /\ UNCHANGED <<clock, ReminderOffsets, gw, Pending, nextUid, mainPc, syncList,
                   hev, alone, purgedOld, dispatched, wpc, wnow, wi,
                   remaining, fired, sendErr>>
    /\ UNCHANGED <<quota, raced, purged>>
    /\ UNCHANGED pvars

\* removeRemindersForEvent, lines 405-413 and the deferred Unlock.
PurgeBody(h) ==
    /\ hpc[h] = "p_locked"
    /\ Pending' = removeRemindersForEvent(Pending, hev[h].ID)
    /\ mutex' = "free"
    /\ hpc' = [hpc EXCEPT ![h] = "q_wait"]
    /\ alone' = [k \in Handlers |-> k = h]
    /\ purgedOld' = [purgedOld EXCEPT ![h] =
                        \E r \in Range(Pending) :
                            r.EventID = hev[h].ID /\ r.StartTime # hev[h].S]
    /\ purged' = purged \cup {r.uid : r \in {q \in Range(Pending) : q.EventID = hev[h].ID}}
    /\ UNCHANGED <<clock, ReminderOffsets, gw, nextUid, mainPc, syncList, hev,
                   dispatched, wpc, wnow, wi, remaining, fired, sendErr>>
    /\ UNCHANGED <<quota, raced>>
    /\ UNCHANGED pvars

\* queueReminders, line 417: store.Lock().
QueueLock(h) ==
    /\ hpc[h] = "q_wait"
    /\ mutex = "free"
    /\ mutex' = h
    /\ hpc' = [hpc EXCEPT ![h] = "q_locked"]
    /\ UNCHANGED <<clock, ReminderOffsets, gw, Pending, nextUid, mainPc, syncList,
                   hev, alone, purgedOld, dispatched, wpc, wnow, wi,
                   remaining, fired, sendErr>>
    /\ UNCHANGED <<quota, raced, purged>>
    /\ UNCHANGED pvars

\* queueReminders, lines 420-456 and the deferred Unlock; the handler returns.
\* The calls of time.Now() inside one queueReminders read one clock value.
QueueBody(h) ==
    /\ hpc[h] = "q_locked"
    /\ Pending' = queueReminders(Pending, hev[h], clock, ReminderOffsets, nextUid)
    /\ nextUid' = nextUid + Len(Pending') - Len(Pending)
    /\ mutex' = "free"
    /\ alone' = [k \in Handlers |-> k = h /\ alone[h]]
    /\ Returned(h)
    /\ UNCHANGED <<clock, ReminderOffsets, gw, mainPc, syncList, purgedOld, dispatched, wpc,
                   wnow, wi, remaining, fired, sendErr>>
    /\ UNCHANGED <<quota, raced, purged>>
    /\ UNCHANGED pvars

\* ------------------------------------------------------------ startup pass

\* syncExistingEvents, line 509: the guild's events are fetched.
SyncFetch ==
    /\ mainPc = "sync_fetch"
    /\ syncList' = ListedEvents(gw)
    /\ mainPc' = "sync_loop"
    /\ UNCHANGED <<clock, ReminderOffsets, gw, Pending, mutex, nextUid, hpc, hev,
                   alone, purgedOld, dispatched, wpc, wnow, wi, remaining,
                   fired, sendErr>>
    /\ UNCHANGED <<quota, raced, purged>>
    /\ UNCHANGED pvars

\* syncExistingEvents, line 520: queueReminders locks the store.
SyncLock ==
    /\ mainPc = "sync_loop"
    /\ syncList # <<>>
    /\ mutex = "free"
    /\ mutex' = "main"
    /\ mainPc' = "sync_locked"
    /\ UNCHANGED <<clock, ReminderOffsets, gw, Pending, nextUid, syncList, hpc, hev,
                   alone, purgedOld, dispatched, wpc, wnow, wi, remaining,
                   fired, sendErr>>
    /\ UNCHANGED <<quota, raced, purged>>
    /\ UNCHANGED pvars

\* syncExistingEvents, line 520: queueReminders for the next listed event.
SyncBody ==
    /\ mainPc = "sync_locked"
    /\ Pending' = queueReminders(Pending, Head(syncList), clock, ReminderOffsets, nextUid)
    /\ nextUid' = nextUid + Len(Pending') - Len(Pending)
    /\ syncList' = Tail(syncList)
    /\ mutex' = "free"
    /\ mainPc' = "sync_loop"
    /\ alone' = [k \in Handlers |-> FALSE]
    /\ UNCHANGED <<clock, ReminderOffsets, gw, hpc, hev, purgedOld,
                   dispatched, wpc, wnow, wi, remaining, fired, sendErr>>
    /\ UNCHANGED <<quota, raced, purged>>
    /\ UNCHANGED pvars

\* syncExistingEvents logs len(store.Pending) and returns (line 524); Start
\* runs `go reminderWorker(s)`.
SyncDone ==
    /\ mainPc = "sync_loop"
    /\ syncList = <<>>
    /\ mainPc' = "running"
    /\ wpc' = "wait"
    /\ UNCHANGED <<clock, ReminderOffsets, gw, Pending, mutex, nextUid, syncList,
                   hpc, hev, alone, purgedOld, dispatched, wnow, wi,
                   remaining, fired, sendErr>>
    /\ UNCHANGED <<quota, raced, purged>>
    /\ UNCHANGED pvars

\* ---------------------------------------------------------- reminderWorker

\* The ticker fires: now := time.Now() (line 463).
WorkerTick ==
    /\ wpc = "wait"
    /\ wnow' = clock
    /\ wpc' = "lock_wait"
    /\ sendErr' = FALSE
    /\ UNCHANGED <<clock, ReminderOffsets, gw, Pending, mutex, nextUid, mainPc,
                   syncList, hpc, hev, alone, purgedOld, dispatched, wi,
                   remaining, fired>>
    /\ UNCHANGED <<quota, raced, purged>>
    /\ UNCHANGED pvars

\* A worker that gives the lock back while it sends a reminder.
WorkerGoesOn_unlocked(rem, j) ==
    IF j <= Len(Pending)
    THEN /\ wpc' = "send"
         /\ wi' = j
         /\ remaining' = rem
         /\ mutex' = "free"
         /\ UNCHANGED <<Pending, wnow>>
    ELSE /\ wpc' = "wait"
         /\ wi' = 0
         /\ wnow' = 0
         /\ remaining' = <<>>
         /\ mutex' = "free"
         /\ Pending' = rem

\* The worker, holding the lock, has passed the reminders before index j and
\* kept them in rem: it stops in ChannelMessageSend for a due one, or the loop
\* is over, store.Pending = remaining, store.Unlock() (lines 498-503).
WorkerGoesOn(rem, j) ==
    IF j <= Len(Pending)
    THEN /\ wpc' = "send"
         /\ wi' = j
         /\ remaining' = rem
         /\ mutex' = "worker"
         /\ UNCHANGED <<Pending, wnow>>
    ELSE /\ wpc' = "wait"
         /\ wi' = 0
         /\ wnow' = 0
         /\ remaining' = <<>>
         /\ mutex' = "free"
         /\ Pending' = rem

\* store.Lock() (line 464) and the range loop up to the first due reminder.
WorkerLock ==
    /\ wpc = "lock_wait"
    /\ mutex = "free"
    /\ LET j == scanIndex(Pending, wnow, 1)
       IN  WorkerGoesOn(scanKept(Pending, <<>>, 1, j), j)
    /\ UNCHANGED <<clock, ReminderOffsets, gw, nextUid, mainPc, syncList, hpc, hev,
                   alone, purgedOld, dispatched, fired, sendErr>>
    /\ UNCHANGED <<quota, raced, purged>>
    /\ UNCHANGED pvars

\* ChannelMessageSend returns (line 490), with or without an error, and the
\* range loop goes on up to the next due reminder.
WorkerSend(ok) ==
    /\ wpc = "send"
    /\ fired' = [fired EXCEPT ![Pending[wi].uid] = @ + 1]
    /\ sendErr' = (sendErr \/ ~ok)
    /\ LET j == scanIndex(Pending, wnow, wi + 1)
       IN  WorkerGoesOn(scanKept(Pending, AfterSend(remaining, Pending[wi], ok),
                                 wi + 1, j), j)
    /\ UNCHANGED <<clock, ReminderOffsets, gw, nextUid, mainPc, syncList, hpc, hev,
                   alone, purgedOld, dispatched>>
    /\ UNCHANGED <<quota, raced, purged>>
    /\ UNCHANGED pvars

\* --------------------------------------------------------- status message

\* The channel holds the status messages the bot created (their ids); Discord
\* lists the newest first, and all of them lie within the 100 most recent.

\* A lookup that never finds a message, whatever id it is given.
fetchExistingMessage_blind(id, chan, user, fetchOk) ==
    [msg |-> 0, err |-> FALSE, byId |-> FALSE, searched |-> TRUE]

\* fetchExistingMessage: with an id, ChannelMessage fetches that message (an
\* error when the call fails or the message is gone) and nothing else is
\* tried; without one, ChannelMessages is searched for the first message
\* whose author is bot.userID and whose content holds the title, or none (0).
fetchExistingMessage(id, chan, user, fetchOk) ==
    IF id # 0
    THEN IF fetchOk /\ id \in chan
         THEN [msg |-> id, err |-> FALSE, byId |-> TRUE, searched |-> FALSE]
         ELSE [msg |-> 0, err |-> TRUE, byId |-> TRUE, searched |-> FALSE]
    ELSE IF ~fetchOk THEN [msg |-> 0, err |-> TRUE, byId |-> FALSE, searched |-> TRUE]
         ELSE LET own == IF user = BotUser THEN chan ELSE {}
              IN  [msg |-> IF own = {} THEN 0
                           ELSE CHOOSE m \in own : \A k \in own : k <= m,
                   err |-> FALSE, byId |-> FALSE, searched |-> TRUE]

\* updatePlayerList: the message is fetched, then edited or created, then
\* pinned; any error returns the empty id. The result carries the channel and
\* the next id as the calls leave them, and the calls made (ops: the message
\* ChannelMessageEditComplex was called on, the message
\* ChannelMessageSendComplex created).
updatePlayerList(id, chan, user, next, pin, fetchOk, editOk, sendOk, pinOk) ==
    LET f == fetchExistingMessage(id, chan, user, fetchOk)
        ops(e, c, bad, rid) == [byId |-> f.byId, searched |-> f.searched, edited |-> e,
                                created |-> c, err |-> bad, id |-> rid]
        failedAt(c, n, o) == [id |-> 0, err |-> TRUE, channel |-> c, next |-> n, ops |-> o]
    IN  IF f.err THEN failedAt(chan, next, ops(0, 0, TRUE, 0))
        ELSE IF f.msg # 0
             THEN IF ~editOk THEN failedAt(chan, next, ops(f.msg, 0, TRUE, 0))
                  ELSE IF pin /\ ~pinOk THEN failedAt(chan, next, ops(f.msg, 0, TRUE, 0))
                       ELSE [id |-> f.msg, err |-> FALSE, channel |-> chan, next |-> next,
                             ops |-> ops(f.msg, 0, FALSE, f.msg)]
             ELSE IF ~sendOk \/ next > MaxMsgs THEN failedAt(chan, next, ops(0, 0, TRUE, 0))
                  ELSE IF pin /\ ~pinOk
                       THEN failedAt(chan \cup {next}, next + 1, ops(0, next, TRUE, 0))
                       ELSE [id |-> next, err |-> FALSE, channel |-> chan \cup {next},
                             next |-> next + 1, ops |-> ops(0, next, FALSE, next)]

\* ------------------------------------------------------------ presence diff

\* The inner loop of lines 142-146 / 150-154 from index i on: every player of
\* one server's list is mapped to that server, a later entry overwriting an
\* earlier one.
RECURSIVE indexPlayers(_, _, _, _)
indexPlayers(idx, players, server, i) ==
    IF i > Len(players) THEN idx
    ELSE indexPlayers((players[i] :> server) @@ idx, players, server, i + 1)

\* The outer loop: the servers of a generation, in the order the range over
\* the map takes them, from index k on.
RECURSIVE buildIndex(_, _, _, _)
buildIndex(idx, infos, order, k) ==
    IF k > Len(order) THEN idx
    ELSE buildIndex(
             IF order[k] \in DOMAIN infos
             THEN indexPlayers(idx, infos[order[k]], order[k], 1)
             ELSE idx,
             infos, order, k + 1)

\* prevPlayerServer / currPlayerServer for a generation and a map order.
PlayerServer(infos, order) == buildIndex(<<>>, infos, order, 1)

\* A switch that reports a move as a leave and a join.
joinOrMove_split(prev, curr, player) ==
    IF player \notin DOMAIN prev
    THEN {[kind |-> "join", player |-> player, from |-> "", to |-> curr[player]]}
    ELSE IF prev[player] # curr[player]
         THEN {[kind |-> "leave", player |-> player, from |-> prev[player], to |-> ""],
               [kind |-> "join", player |-> player, from |-> "", to |-> curr[player]]}
         ELSE {}

\* The switch of lines 160-172 for one player of currPlayerServer: the
\* messages it sends.
joinOrMove(prev, curr, player) ==
    IF player \notin DOMAIN prev
    THEN {[kind |-> "join", player |-> player, from |-> "", to |-> curr[player]]}
    ELSE IF prev[player] # curr[player]
         THEN {[kind |-> "move", player |-> player, from |-> prev[player],
                to |-> curr[player]]}
         ELSE {}

\* Lines 176-182 for one player of prevPlayerServer.
leaveOf(prev, curr, player) ==
    IF player \notin DOMAIN curr
    THEN {[kind |-> "leave", player |-> player, from |-> prev[player], to |-> ""]}
    ELSE {}

\* Lines 137-182: the messages of one round, for the two map orders taken.
PresenceDiff(last, cur, orderPrev, orderCurr) ==
    LET prev == PlayerServer(last, orderPrev)
        curr == PlayerServer(cur, orderCurr)
    IN  UNION {joinOrMove(prev, curr, p) : p \in DOMAIN curr}
        \cup UNION {leaveOf(prev, curr, p) : p \in DOMAIN prev}

\* ----------------------------------------------------------- FormatDuration

\* A span is a number of 30-second units: int(d.Minutes()) and int(d.Hours())
\* truncate it.
Minutes(d) == d \div 2
Hours(d) == d \div 120

\* units[lang]; a language the map does not hold falls back to English.
units(l) ==
    IF l = German
    THEN [day |-> [singular |-> "Tag", plural |-> "Tage"],
          hour |-> [singular |-> "Stunde", plural |-> "Stunden"],
          minute |-> [singular |-> "Minute", plural |-> "Minuten"]]
    ELSE [day |-> [singular |-> "day", plural |-> "days"],
          hour |-> [singular |-> "hour", plural |-> "hours"],
          minute |-> [singular |-> "minute", plural |-> "minutes"]]

\* A pluralize that takes the plural from 1 on.
pluralize_fromOne(count, u) == IF count = 0 THEN u.singular ELSE u.plural

\* pluralize
pluralize(count, u) == IF count = 1 THEN u.singular ELSE u.plural

\* fmt.Sprintf("%d %s", n, word) and fmt.Sprintf("%d %s %d %s", ...)
Sprintf1(n, word) == ToString(n) \o " " \o word
Sprintf2(n, word, m, word2) == Sprintf1(n, word) \o " " \o Sprintf1(m, word2)

\* FormatDuration
FormatDuration(d, l) ==
    IF d < 0 THEN ""
    ELSE LET u == units(l)
             totalMinutes == Minutes(d)
             totalHours == Hours(d)
             days == totalHours \div 24
             hours == totalHours % 24
             minutes == totalMinutes % 60
         IN  IF days >= 1
             THEN IF hours = 0
                  THEN Sprintf1(days, pluralize(days, u.day))
                  ELSE Sprintf2(days, pluralize(days, u.day),
                                hours, pluralize(hours, u.hour))
             ELSE IF totalHours >= 1
                  THEN IF minutes = 0
                       THEN Sprintf1(totalHours, pluralize(totalHours, u.hour))
                       ELSE Sprintf2(totalHours, pluralize(totalHours, u.hour),
                                     minutes, pluralize(minutes, u.minute))
                  ELSE Sprintf1(totalMinutes, pluralize(totalMinutes, u.minute))

\* A caller formats the span it holds.
Format ==
    /\ ~formatted
    /\ text' = FormatDuration(span, lang)
    /\ formatted' = TRUE
    /\ UNCHANGED <<span, lang>>
    /\ UNCHANGED <<ShowJoinLeave, PinPlayerList, cpc, ifos, lastInfos, notes,
                   existingMessageId, cacheFile, channel, nextMsg, userID, bootRead,
                   lastOps, steps>>
    /\ UNCHANGED evars

\* ----------------------------------------------------- the consumer loop

\* Start, lines 66-111: readMessageId reads the cache file (a missing file is
\* the empty id, any other error makes Start return it and main exit), the
\* session is opened and bot.userID is taken from the session state or from
\* User("@me"), whose error is dropped.
Boot(readOk, userOk) ==
    /\ cpc = "boot"
    /\ IF readOk
       THEN /\ existingMessageId' = cacheFile
            /\ userID' = IF userOk THEN BotUser ELSE ""
            /\ bootRead' = "ok"
            /\ cpc' = "recv"
       ELSE /\ bootRead' = "error"
            /\ cpc' = "exited"
            /\ UNCHANGED <<existingMessageId, userID>>
    /\ UNCHANGED <<ShowJoinLeave, PinPlayerList, ifos, lastInfos, notes, cacheFile,
                   channel, nextMsg, lastOps, steps>>
    /\ UNCHANGED fvars
    /\ UNCHANGED evars

\* The process ends (it is stopped, or it crashed, or it exited) and is
\* started again: the file and the channel stay, the memory is lost.
Restart ==
    /\ cpc # "boot"
    /\ cpc' = "boot"
    /\ existingMessageId' = 0
    /\ userID' = ""
    /\ bootRead' = "none"
    /\ ifos' = NilInfos
    /\ lastInfos' = NilInfos
    /\ notes' = {}
    /\ lastOps' = NoOps
    /\ steps' = <<>>
    /\ UNCHANGED <<ShowJoinLeave, PinPlayerList, cacheFile, channel, nextMsg>>
    /\ UNCHANGED fvars
    /\ UNCHANGED evars

\* `for ifos := range updateChan` takes the next snapshot (line 121).
Receive(s) ==
    /\ cpc = "recv"
    /\ ifos' = s
    /\ notes' = {}
    /\ steps' = <<>>
    /\ cpc' = "publish"
    /\ UNCHANGED <<ShowJoinLeave, PinPlayerList, lastInfos, existingMessageId,
                   cacheFile, channel, nextMsg, userID, bootRead, lastOps>>
    /\ UNCHANGED fvars
    /\ UNCHANGED evars

\* Lines 122-134: updatePlayerList, then existingMessageId takes the id it
\* returned (empty on an error) and writeMessageId stores it.
Publish(fetchOk, editOk, sendOk, pinOk, writeOk) ==
    /\ cpc = "publish"
    /\ LET r == updatePlayerList(existingMessageId, channel, userID, nextMsg,
                                 PinPlayerList, fetchOk, editOk, sendOk, pinOk)
       IN  /\ existingMessageId' = r.id
           /\ channel' = r.channel
           /\ nextMsg' = r.next
           /\ lastOps' = r.ops
           /\ cacheFile' = IF writeOk THEN r.id ELSE cacheFile
    /\ steps' = Append(steps, "publish")
    /\ cpc' = "diff"
    /\ UNCHANGED <<ShowJoinLeave, PinPlayerList, ifos, lastInfos, notes, userID,
                   bootRead>>
    /\ UNCHANGED fvars
    /\ UNCHANGED evars

\* Lines 136-183: the join / leave / move messages, when they are switched on;
\* each range over a map takes some order.
Diff(orderPrev, orderCurr) ==
    /\ cpc = "diff"
    /\ notes' = IF ShowJoinLeave
                THEN PresenceDiff(lastInfos, ifos, orderPrev, orderCurr)
                ELSE {}
    /\ steps' = IF ShowJoinLeave THEN Append(steps, "diff") ELSE steps
    /\ cpc' = "copy"
    /\ UNCHANGED <<ShowJoinLeave, PinPlayerList, ifos, lastInfos, existingMessageId,
                   cacheFile, channel, nextMsg, userID, bootRead, lastOps>>
    /\ UNCHANGED fvars
    /\ UNCHANGED evars

\* Lines 185-196: lastInfos becomes a copy of the snapshot.
Remember ==
    /\ cpc = "copy"
    /\ lastInfos' = [sv \in DOMAIN ifos |-> ifos[sv]]
    /\ cpc' = "recv"
    /\ UNCHANGED <<ShowJoinLeave, PinPlayerList, ifos, notes, existingMessageId,
                   cacheFile, channel, nextMsg, userID, bootRead, lastOps, steps>>
    /\ UNCHANGED fvars
    /\ UNCHANGED evars

\* ------------------------------------------------------- the specification

\* The eventer: gateway, handlers, startup pass and worker.
Next ==
    \/ AdvanceTime
    \/ \E h \in Handlers, e \in Notified, S \in StartTimes : GatewayCreate(h, e, S)
    \/ \E h \in Handlers, e \in Notified, st \in Statuses, S \in StartTimes :
           GatewayUpdate(h, e, st, S)
    \/ \E h \in Handlers : Announce(h)
    \/ \E h \in Handlers : UpdateCheck(h)
    \/ \E h \in Handlers : PurgeLock(h)
    \/ \E h \in Handlers : PurgeBody(h)
    \/ \E h \in Handlers : QueueLock(h)
    \/ \E h \in Handlers : QueueBody(h)
    \/ SyncFetch
    \/ SyncLock
    \/ SyncBody
    \/ SyncDone
    \/ WorkerTick
    \/ WorkerLock
    \/ \E ok \in BOOLEAN : WorkerSend(ok)

Init == EInit /\ PInit /\ FInit /\ ShowJoinLeave /\ PinPlayerList

Spec == Init /\ [][Next]_vars

\* The snapshot consumer: Start's loop over updateChan.
PNext ==
    \/ \E s \in Snapshots : Receive(s)
    \/ \E fetchOk, editOk, sendOk, pinOk, writeOk \in BOOLEAN :
           Publish(fetchOk, editOk, sendOk, pinOk, writeOk)
    \/ \E orderPrev, orderCurr \in ServerOrders : Diff(orderPrev, orderCurr)
    \/ Remember

PresenceInit ==
    PInit /\ FInit /\ EInit /\ ReminderOffsets = <<2, 1>> /\ gw = [e \in Events |-> NoEvent]

SpecPresence == PresenceInit /\ [][PNext]_vars

\* The eventer with the scheduling the runtime gives it: time goes on, the
\* ticker keeps firing, a goroutine that holds or can take the lock goes on
\* (sync.Mutex hands the lock to a waiter), a call to Discord returns. Whether
\* the gateway delivers anything, and when a handler goroutine that is not
\* yet at the lock gets there, is left open.
Fairness ==
    /\ WF_vars(AdvanceTime)
    /\ WF_vars(SyncFetch)
    /\ SF_vars(SyncLock)
    /\ WF_vars(SyncBody)
    /\ WF_vars(SyncDone)
    /\ WF_vars(WorkerTick)
    /\ SF_vars(WorkerLock)
    /\ WF_vars(\E ok \in BOOLEAN : WorkerSend(ok))
    /\ \A h \in Handlers : WF_vars(PurgeBody(h)) /\ WF_vars(QueueBody(h))

\* One configuration of the offsets and a guild that holds e1 or nothing.
LiveInit == Init /\ ReminderOffsets = <<2, 1>> /\ gw["e2"] = NoEvent

LiveSpec == LiveInit /\ [][Next]_vars /\ Fairness

\* The lifecycle handlers once Start is in its loop: the startup pass is over
\* (it queued the reminders of e1 when the guild held it, at time 0), the
\* worker runs, and the gateway delivers RaceDispatch notifications about e1,
\* whose handlers run side by side.
RaceInit ==
    /\ clock = 0
    /\ ReminderOffsets = <<2, 1>>
    /\ gw \in {g \in [Events -> {NoEvent, [S |-> 2, Status |-> Scheduled]}] :
                 g["e2"] = NoEvent}
    /\ Pending = IF gw["e1"] = NoEvent THEN <<>>
                 ELSE queueReminders(<<>>, [ID |-> "e1", S |-> gw["e1"].S], 0,
                                     ReminderOffsets, 1)
    /\ nextUid = 1 + Len(Pending)
    /\ mutex = "free"
    /\ mainPc = "running"
    /\ syncList = <<>>
    /\ hpc = [h \in Handlers |-> "idle"]
    /\ hev = [h \in Handlers |-> NoCall]
    /\ alone = [h \in Handlers |-> FALSE]
    /\ purgedOld = [h \in Handlers |-> FALSE]
    /\ dispatched = 0
    /\ wpc = "wait"
    /\ wnow = 0
    /\ wi = 0
    /\ remaining = <<>>
    /\ fired = [u \in 1..MaxUid |-> 0]
    /\ sendErr = FALSE
    /\ quota = RaceDispatch
    /\ raced = FALSE
    /\ purged = {}
    /\ PInit /\ FInit /\ ShowJoinLeave /\ PinPlayerList

RaceNext ==
    \/ AdvanceTime
    \/ \E h \in Handlers, e \in Notified, S \in StartTimes : GatewayCreate(h, e, S)
    \/ \E h \in Handlers, e \in Notified, st \in Statuses, S \in StartTimes :
           GatewayUpdate(h, e, st, S)
    \/ \E h \in Handlers : Announce(h)
    \/ \E h \in Handlers : UpdateCheck(h)
    \/ \E h \in Handlers : PurgeLock(h)
    \/ \E h \in Handlers : PurgeBody(h)
    \/ \E h \in Handlers : QueueLock(h)
    \/ \E h \in Handlers : QueueBody(h)
    \/ WorkerTick
    \/ WorkerLock
    \/ \E ok \in BOOLEAN : WorkerSend(ok)

SpecRace == RaceInit /\ [][RaceNext]_vars

\* The status publisher across starts of the process: Start from its first
\* line, the loop over updateChan, and restarts. The eventer is switched off
\* (Eventer.Enabled is false).
FewSnapshots == {[sv \in Servers |-> <<>>], [sv \in Servers |-> IF sv = "A" THEN <<"p1">> ELSE <<>>]}

PublishInit ==
    /\ EInit /\ ReminderOffsets = <<2, 1>> /\ gw = [e \in Events |-> NoEvent]
    /\ ShowJoinLeave \in BOOLEAN
    /\ PinPlayerList \in BOOLEAN
    /\ cpc = "boot"
    /\ ifos = NilInfos
    /\ lastInfos = NilInfos
    /\ notes = {}
    /\ existingMessageId = 0
    /\ cacheFile = 0
    /\ channel = {}
    /\ nextMsg = 1
    /\ userID = ""
    /\ bootRead = "none"
    /\ lastOps = NoOps
    /\ steps = <<>>
    /\ FInit

PublishNext ==
    \/ \E readOk, userOk \in BOOLEAN : Boot(readOk, userOk)
    \/ Restart
    \/ \E s \in FewSnapshots : Receive(s)
    \/ \E fetchOk, editOk, sendOk, pinOk, writeOk \in BOOLEAN :
           Publish(fetchOk, editOk, sendOk, pinOk, writeOk)
    \/ \E orderPrev, orderCurr \in ServerOrders : Diff(orderPrev, orderCurr)
    \/ Remember

SpecPublish == PublishInit /\ [][PublishNext]_vars

\* FormatDuration applied to every span from a little below zero up to
\* MaxSpan, in every language.
FormatInit ==
    /\ PInit /\ EInit /\ ReminderOffsets = <<2, 1>> /\ gw = [e \in Events |-> NoEvent]
    /\ ShowJoinLeave /\ PinPlayerList
    /\ span \in -4..MaxSpan
    /\ lang \in Languages
    /\ text = ""
    /\ formatted = FALSE

FormatNext ==
    \/ Format

SpecFormat == FormatInit /\ [][FormatNext]_vars

\* ===================================================================== claims

\* The reminders of event e in a list, in the list's order.
OfEvent(P, e) == SelectSeq(P, LAMBDA r : r.EventID = e)

\* The offsets whose reminder moment S - offset lies strictly after now.
FutureOffsets(S, now) == SelectSeq(ReminderOffsets, LAMBDA o : S - o > now)

\* The reminder set the design derives for event e starting at S, at now.
ExpectedReminders(e, S, now) ==
    {[EventID |-> e, StartTime |-> S, RemindAt |-> S - o, Now |-> FALSE] :
         o \in Range(FutureOffsets(S, now))}
    \cup (IF S > now
          THEN {[EventID |-> e, StartTime |-> S, RemindAt |-> S, Now |-> TRUE]}
          ELSE {})

\* The worker ends a tick in this step.
TickEnds == wpc \in {"lock_wait", "send"} /\ wpc' = "wait"

\* C1. At-most-once firing: no reminder is handed to ChannelMessageSend twice;
\* a reminder that was sent stays in store.Pending only until the tick that
\* sent it ends, and the worker never keeps it in remaining, whether or not the
\* send succeeded.
C1_AtMostOnce ==
    /\ \A u \in 1..MaxUid : fired[u] <= 1
    /\ \A i \in DOMAIN Pending :
           fired[Pending[i].uid] > 0 => (wpc = "send" /\ i < wi)
    /\ \A r \in Range(remaining) : fired[r.uid] = 0

\* C1, witness: a tick is over in which a send failed, and the reminder sent
\* is gone from the store.
C1_Witness ==
    /\ wpc = "wait"
    /\ sendErr
    /\ \E u \in 1..MaxUid : fired[u] = 1 /\ \A r \in Range(Pending) : r.uid # u

\* C2. Uniqueness: store.Pending never holds two reminders with the same
\* (EventID, RemindAt).
C2_Unique ==
    \A i, j \in DOMAIN Pending :
        (i # j) => ~(/\ Pending[i].EventID = Pending[j].EventID
                     /\ Pending[i].RemindAt = Pending[j].RemindAt)

C4_DueAtRemindAt ==
    [][TickEnds =>
          \A r \in Range(Pending) :
              /\ (wnow < r.RemindAt) => (r \in Range(Pending') /\ fired'[r.uid] = 0)
              /\ (wnow = r.RemindAt) => (r \notin Range(Pending') /\ fired'[r.uid] = 1)]_vars

\* C5. Reminder derivation: one queueReminders call for an event starting at
\* S, at time now, appends a non-immediate reminder at S - offset for exactly
\* the configured offsets with S - offset strictly after now, in their order,
\* then one immediate reminder at S if and only if S is strictly after now,
\* and nothing else; what was pending stays.
C5_Derivation ==
    [][\A c \in {[on |-> hpc[h] = "q_locked" /\ hpc'[h] = "idle",
                  ID |-> hev[h].ID, S |-> hev[h].S] : h \in Handlers}
             \cup {[on |-> mainPc = "sync_locked" /\ mainPc' = "sync_loop",
                    ID |-> IF syncList = <<>> THEN "none" ELSE Head(syncList).ID,
                    S |-> IF syncList = <<>> THEN 0 ELSE Head(syncList).S]} :
          c.on =>
             LET added == SubSeq(Pending', Len(Pending) + 1, Len(Pending'))
                 plain == SelectSeq(added, LAMBDA r : ~r.Now)
                 immed == SelectSeq(added, LAMBDA r : r.Now)
                 offs  == FutureOffsets(c.S, clock)
             IN  /\ SubSeq(Pending', 1, Len(Pending)) = Pending
                 /\ \A r \in Range(added) : r.EventID = c.ID /\ r.StartTime = c.S
                 /\ Len(plain) = Len(offs)
                 /\ \A i \in DOMAIN plain : plain[i].RemindAt = c.S - offs[i]
                 /\ Len(immed) = (IF c.S > clock THEN 1 ELSE 0)
                 /\ \A r \in Range(immed) : r.RemindAt = c.S
                 /\ \A i \in DOMAIN added : added[i].Now => i = Len(added)]_vars

\* C5, witness: the startup pass has queued the reminders of an event, before
\* any was fired or purged: an offset whose moment had passed was skipped and
\* the immediate reminder is there.
C5_Witness ==
    /\ wpc = "off"
    /\ nextUid = Len(Pending) + 1
    /\ \E e \in Events :
           /\ \E r \in Range(Pending) : r.EventID = e /\ r.Now
           /\ \E r \in Range(Pending) : r.EventID = e /\ ~r.Now
           /\ Len(OfEvent(Pending, e)) < Len(ReminderOffsets) + 1

\* C6. An update handler whose status is not "scheduled" never changes
\* store.Pending: it adds no reminder and removes none.
C6_NotScheduledFrame ==
    [][\A h \in Handlers :
          (/\ hev[h].kind = "update" /\ hev[h].Status # Scheduled
           /\ hpc'[h] # hpc[h])
          => Pending' = Pending]_vars

\* C6, witness: the handler of an update that was not "scheduled" has
\* returned, and reminders of its event are still pending.
C6_Witness ==
    \E e \in Notified :
        /\ gw[e].Status \in {Active, Completed, Canceled, Unknown}
        /\ \A h \in Handlers : hpc[h] = "idle"
        /\ \E r \in Range(Pending) : r.EventID = e

\* C7. No outbound send under the store's lock: whoever is inside
\* ChannelMessageSend does not hold the mutex.
C7_NoLockAcrossSend ==
    /\ (wpc = "send") => (mutex # "worker")
    /\ \A h \in Handlers : (hpc[h] = "announce") => (mutex # h)

\* The servers that list player p in a generation, and the players listed.
OnServer(infos, p) == {sv \in DOMAIN infos : p \in Range(infos[sv])}
Present(infos) == {p \in Players : OnServer(infos, p) # {}}

\* Every player is listed on at most one server of the generation.
SingleServer(infos) == \A p \in Players : Cardinality(OnServer(infos, p)) <= 1

\* The messages of this round that are about player p.
NotesOf(p) == {n \in notes : n.player = p}

\* In state "copy" the round's messages are out: lastInfos is still the
\* previous generation, ifos the current one.
MovedPlayers ==
    {m \in [player : Players, from : Servers, to : Servers] :
        /\ m.from # m.to
        /\ OnServer(lastInfos, m.player) = {m.from}
        /\ OnServer(ifos, m.player) = {m.to}}

\* C8 as stated. Move classification: with every player on at most one server
\* in both generations, a player on A before and on B # A now gets exactly
\* one move message A -> B and no join or leave message.
C8_MoveAsStated ==
    (cpc = "copy" /\ SingleServer(lastInfos) /\ SingleServer(ifos))
    => \A m \in MovedPlayers :
           NotesOf(m.player) = {[kind |-> "move", player |-> m.player,
                                 from |-> m.from, to |-> m.to]}

\* C8, amended: the same, when ShowJoinLeave is switched on.
C8_MoveWhenEnabled ==
    (cpc = "copy" /\ ShowJoinLeave /\ SingleServer(lastInfos) /\ SingleServer(ifos))
    => \A m \in MovedPlayers :
           NotesOf(m.player) = {[kind |-> "move", player |-> m.player,
                                 from |-> m.from, to |-> m.to]}

\* C8, witness: a round with the messages switched on in which a player
\* changed servers while another stayed.
C8_Witness ==
    /\ cpc = "copy" /\ ShowJoinLeave
    /\ SingleServer(lastInfos) /\ SingleServer(ifos)
    /\ MovedPlayers # {}
    /\ \E p \in Players : OnServer(lastInfos, p) = OnServer(ifos, p) /\ OnServer(ifos, p) # {}

\* C9. Join / leave completeness, with ShowJoinLeave on: the joins are exactly
\* the players listed now and not before, the leaves exactly the players
\* listed before and not now, each with a server that listed the player
\* before; a player listed on the same server in both gets no message; no
\* player gets two messages; on the first round every listed player gets a
\* join and nothing else is sent.
C9_JoinLeave ==
    (cpc = "copy" /\ ShowJoinLeave)
    => /\ {n.player : n \in {x \in notes : x.kind = "join"}}
              = Present(ifos) \ Present(lastInfos)
       /\ {n.player : n \in {x \in notes : x.kind = "leave"}}
              = Present(lastInfos) \ Present(ifos)
       /\ \A n \in notes : n.kind = "join" => n.to \in OnServer(ifos, n.player)
       /\ \A n \in notes : n.kind = "leave" => n.from \in OnServer(lastInfos, n.player)
       /\ \A p \in Players :
              (OnServer(lastInfos, p) \cap OnServer(ifos, p) # {}) => NotesOf(p) = {}
       /\ \A p \in Players : Cardinality(NotesOf(p)) <= 1
       /\ (lastInfos = NilInfos)
              => /\ \A n \in notes : n.kind = "join"
                 /\ {n.player : n \in notes} = Present(ifos)

\* C9 restricted to generations that list every player on at most one server
\* (a side result: it holds there).
C9_JoinLeaveSingleServer ==
    (SingleServer(lastInfos) /\ SingleServer(ifos)) => C9_JoinLeave

\* C10. Order independence: for the two generations at hand, whatever orders
\* the ranges over the two maps take, the set of messages is the same.
C10_OrderIndependent ==
    (cpc = "diff" /\ ShowJoinLeave)
    => \A o1, o2, o3, o4 \in ServerOrders :
           PresenceDiff(lastInfos, ifos, o1, o2) = PresenceDiff(lastInfos, ifos, o3, o4)

\* ------------------------------------------------------ the status message

\* The step in which Start's loop runs updatePlayerList and stores its result.
PublishStep == cpc = "publish" /\ cpc' = "diff"

\* The call about to be made is a second call in the sense of the idempotence
\* rule: the snapshot equals the one of the call before, that call ended
\* without an error, and the id handed in is the one it returned.
SecondCall ==
    /\ cpc = "publish"
    /\ lastInfos # NilInfos
    /\ lastInfos = ifos
    /\ ~lastOps.err
    /\ lastOps.id # 0
    /\ existingMessageId = lastOps.id

C12_SingleStatusMessage == Cardinality(channel) <= 1

\* C13: a publish call that was given an id and failed to fetch the message
\* by it goes on to search the channel's recent messages.
C13_FallbackSearch ==
    [][(PublishStep /\ existingMessageId # 0 /\ lastOps'.byId /\ lastOps'.edited = 0)
         => lastOps'.searched]_vars

\* C14: a publish cycle whose updatePlayerList returned an error leaves the
\* id in memory and the persisted pointer as they were.
C14_PointerKeptOnError ==
    [][(PublishStep /\ lastOps'.err)
         => (existingMessageId' = existingMessageId /\ cacheFile' = cacheFile)]_vars

\* C15: after a read error of the persisted pointer Start has not ended; it
\* goes on with the empty id.
C15_ReadErrorNotFatal ==
    bootRead = "error" => (cpc # "exited" /\ existingMessageId = 0)

\* C16: for the snapshot taken, the status message is published only after
\* the presence diff has been done.
C16_DiffBeforePublish ==
    (ShowJoinLeave /\ "publish" \in Range(steps)) => steps[1] = "diff"

\* ----------------------------------------------------------- FormatDuration

\* "<n> <word>" with the plural "s" unless n is 1.
Counted(n, word) == ToString(n) \o " " \o (IF n = 1 THEN word ELSE word \o "s")

\* The rule as the specification words it, for a span of m whole minutes.
RuleText(m) ==
    IF m >= 1440
    THEN LET days == m \div 1440
             hourRest == (m % 1440) \div 60
         IN  IF hourRest # 0
             THEN Counted(days, "day") \o " " \o Counted(hourRest, "hour")
             ELSE Counted(days, "day")
    ELSE IF m >= 60
         THEN LET minuteRest == m % 60
              IN  IF minuteRest # 0
                  THEN Counted(m \div 60, "hour") \o " " \o Counted(minuteRest, "minute")
                  ELSE Counted(m \div 60, "hour")
         ELSE Counted(m, "minute")

OneSet(e) ==
    LET P == OfEvent(Pending, e)
    IN  \A i, j \in DOMAIN P :
            /\ P[i].StartTime = P[j].StartTime
            /\ i # j => Fields(P[i]) # Fields(P[j])

\* C18: when two handlers that reschedule the same event have run side by
\* side and both have returned, store.Pending holds the reminders of one start
\* time only for the event, none of them twice.
C18_OneSetAfterRace ==
    (raced /\ \A h \in Handlers : hpc[h] = "idle") => OneSet("e1")

\* C19: when syncExistingEvents begins, store.Pending is empty.
C19_SyncOnEmptyStore ==
    [][(mainPc = "sync_fetch" /\ mainPc' = "sync_loop") => Pending = <<>>]_vars

\* ------------------------------------------------------------- liveness

\* Every reminder appended so far has been sent by the worker or removed by a
\* purge of its event.
Settled == \A u \in 1..(nextUid - 1) : fired[u] > 0 \/ u \in purged

\* C20: with time going on and the ticker firing, every reminder appended to
\* store.Pending and not removed by a later purge of its event is in the end
\* sent by reminderWorker; none stays in the list or drops out of it unsent.
C20_EventuallyFired == <>[]Settled

\* Reminders were appended, one was purged by a reschedule, and all the
\* others have been sent.
C20_Witness ==
    /\ nextUid > 3
    /\ purged # {}
    /\ \E u \in 1..(nextUid - 1) : fired[u] > 0 /\ u \notin purged
    /\ Settled
    /\ Pending = <<>>

\* ------------------------------------------------------------ atomic drain

\* The goroutine that is inside a critical section on store.Pending is the
\* one that holds the mutex: the worker from its Lock to its Unlock, a handler
\* or the startup pass inside removeRemindersForEvent / queueReminders.
OneWriter ==
    /\ (wpc = "send") <=> (mutex = "worker")
    /\ \A h \in Handlers : (hpc[h] \in {"p_locked", "q_locked"}) <=> (mutex = h)
    /\ (mainPc = "sync_locked") <=> (mutex = "main")

\* Every reminder appended so far is still in store.Pending, or was sent by
\* the worker, or was removed by a purge of its event.
NothingDropped ==
    \A u \in 1..(nextUid - 1) :
        \/ \E i \in DOMAIN Pending : Pending[i].uid = u
        \/ fired[u] > 0
        \/ u \in purged

\* C21: a tick's scan and replacement of store.Pending does not interleave
\* with an enqueue or a purge, and no reminder is dropped by the replacement:
\* a reminder is in the list, or was sent, or was purged.
C21_AtomicDrain == OneWriter /\ NothingDropped

\* A tick has begun (now is taken, the worker is at store.Lock) while a handler
\* is inside queueReminders for an event whose earlier reminders are pending.
C21_Witness ==
    /\ wpc = "lock_wait"
    /\ Pending # <<>>
    /\ \E h \in Handlers : hpc[h] = "q_locked" /\ mutex = h

\* ------------------------------------------------------- lock discipline

\* The step in which syncExistingEvents reads len(store.Pending) for its last
\* log line and returns.
SyncLogs == mainPc = "sync_loop" /\ syncList = <<>> /\ mainPc' = "running"

\* C22: store.Pending is read and written under the store's mutex only: no
\* goroutine reads it without the lock while another one is inside a critical
\* section that writes it. (The read of line 524 is made without the lock; the
\* formula asks that at least no handler is writing at that moment.)
C22_AccessUnderLock ==
    [][SyncLogs => \A h \in Handlers : hpc[h] \notin {"p_locked", "q_locked"}]_vars

\* ------------------------------------------------------ the immediate flag

\* C23: for every reminder in store.Pending, Now is true exactly when RemindAt
\* equals StartTime, whatever the configured offsets.
C23_NowIffAtStart ==
    \A i \in DOMAIN Pending : Pending[i].Now <=> (Pending[i].RemindAt = Pending[i].StartTime)

\* ------------------------------------------------------------ the countdown

\* The step in which the worker renders and sends the reminder at index wi.
WorkerSends == wpc = "send" /\ fired' # fired

\* The countdown of line 486 for a reminder, rendered at the clock's time (a
\* unit of the clock taken as a minute).
Countdown(r, now) == FormatDuration((r.StartTime - now) * 2, German)

\* C24: whenever the worker renders a reminder that is not the immediate one,
\* the span StartTime - now is not negative and the countdown text is not
\* empty.
C24_CountdownNotEmpty ==
    [][(WorkerSends /\ ~Pending[wi].Now)
         => (Pending[wi].StartTime - clock >= 0 /\ Countdown(Pending[wi], clock) # "")]_vars
====
